---- MODULE Spec2Model ----
(***************************************************************************)
(* Model of chain_to_chain.py: the entry point main() that resolves a      *)
(* --mode code to a route, builds one chain_to_chain coroutine per entry   *)
(* of PRIVATE_KEYS and awaits them with asyncio.gather, and the coroutine  *)
(* chain_to_chain itself (amount computation, start delay, balance-wait    *)
(* loop, submission, success records).  Calls into modules.* and the       *)
(* network are external: each one is an await that later returns a value   *)
(* drawn from a small set, or raises.                                      *)
(***************************************************************************)
EXTENDS Integers, Sequences, FiniteSets, TLC

VARIABLES
    argv,          \* command line: <<>> (no --mode) or <<code>>
    PRIVATE_KEYS,  \* config.PRIVATE_KEYS, the list of wallet keys
    mainpc,        \* position of main()
    args_mode,     \* args.mode: <<>> is None, <<code>> otherwise
    mode,          \* local `mode` of main(): <<>> until assigned
    widx,          \* number of completed iterations of `for wallet in PRIVATE_KEYS`
    tasks,         \* local `tasks` of main(): the list of coroutines
    stdout,        \* lines written to standard output
    stderr,        \* lines written to standard error
    mainlog,       \* logger records emitted by main()
    exit_code      \* <<>> while running, <<n>> once the process has exited

vars == <<argv, PRIVATE_KEYS, mainpc, args_mode, mode, widx, tasks,
          stdout, stderr, mainlog, exit_code>>

(***************************************************************************)
(* Bounds of the model.                                                    *)
(***************************************************************************)
MaxWallets == 2     \* longest PRIVATE_KEYS list explored
MaxDelay   == 2     \* start delays 1..MaxDelay (and JitterHi) are explored in a run of at most one wallet
MaxPolls   == 7     \* balance polls explored per task in a run of at most one wallet
BatchDelay == 1     \* largest start_delay explored in a run of several wallets
BatchPolls == 2     \* balance polls explored per task in a run of several wallets

(***************************************************************************)
(* Program constants.                                                      *)
(***************************************************************************)
JitterLo     == 1
JitterHi     == 200
JitterTick   == 1
PollInterval == 30
LogEvery     == 3
UsageExit    == 2

None == <<>>

Min(a, b) == IF a <= b THEN a ELSE b

(***************************************************************************)
(* Static configuration imported from modules.chains and modules.tokens:   *)
(* opaque handles, one set per chain and per token.                        *)
(***************************************************************************)
ChainNames == {"polygon", "fantom", "avalanche", "bsc"}

Chain(c) ==
    [name                |-> c,
     usdc_contract       |-> <<c, "usdc_contract">>,
     usdt_contract       |-> <<c, "usdt_contract">>,
     w3                  |-> <<c, "w3">>,
     layer_zero_chain_id |-> <<c, "layer_zero_chain_id">>,
     stargate_contract   |-> <<c, "stargate_contract">>,
     stargate_address    |-> <<c, "stargate_address">>,
     explorer            |-> <<c, "explorer">>,
     gas                 |-> <<c, "gas">>]

polygon   == Chain("polygon")
fantom    == Chain("fantom")
avalanche == Chain("avalanche")
bsc       == Chain("bsc")

Token(t) == [name |-> t, stargate_pool_id |-> <<t, "stargate_pool_id">>]

usdc == Token("USDC")
usdt == Token("USDT")

(***************************************************************************)
(* mode_mapping and the argparse choices.                                  *)
(***************************************************************************)
mode_mapping ==
    [c \in {"pf", "pa", "pb", "fp", "fa", "fb", "ap", "af", "ab", "bp", "bf", "ba"} |->
        CASE c = "pf" -> "polygon-fantom"
          [] c = "pa" -> "polygon-avalanche"
          [] c = "pb" -> "polygon-bsc"
          [] c = "fp" -> "fantom-polygon"
          [] c = "fa" -> "fantom-avalanche"
          [] c = "fb" -> "fantom-bsc"
          [] c = "ap" -> "avalanche-polygon"
          [] c = "af" -> "avalanche-fantom"
          [] c = "ab" -> "avalanche-bsc"
          [] c = "bp" -> "bsc-polygon"
          [] c = "bf" -> "bsc-fantom"
          [] c = "ba" -> "bsc-avalanche"]

\* Variant of ModeChoices: --mode is declared without `choices`.
ModeChoices_unrestricted == DOMAIN mode_mapping \cup {"xx"}

\* choices=mode_mapping.keys()
ModeChoices == DOMAIN mode_mapping

\* Variant of Kwargs: the source pool id is bound to both pool parameters.
Kwargs_same_pool(wallet, from_chain_name, token, token_from_chain_contract, to_chain_name, from_chain_w3, destination_chain_id, source_pool_id, dest_pool_id, stargate_from_chain_contract, stargate_from_chain_address, from_chain_explorer, gas) ==
    [wallet                       |-> wallet,
     from_chain_name              |-> from_chain_name,
     token                        |-> token,
     token_from_chain_contract    |-> token_from_chain_contract,
     to_chain_name                |-> to_chain_name,
     from_chain_w3                |-> from_chain_w3,
     destination_chain_id         |-> destination_chain_id,
     source_pool_id               |-> source_pool_id,
     dest_pool_id                 |-> source_pool_id,
     stargate_from_chain_contract |-> stargate_from_chain_contract,
     stargate_from_chain_address  |-> stargate_from_chain_address,
     from_chain_explorer          |-> from_chain_explorer,
     gas                          |-> gas]

(***************************************************************************)
(* The parameters of chain_to_chain, bound by the keyword arguments of a   *)
(* call.                                                                   *)
(***************************************************************************)
Kwargs(wallet, from_chain_name, token, token_from_chain_contract, to_chain_name, from_chain_w3, destination_chain_id, source_pool_id, dest_pool_id, stargate_from_chain_contract, stargate_from_chain_address, from_chain_explorer, gas) ==
    [wallet                       |-> wallet,
     from_chain_name              |-> from_chain_name,
     token                        |-> token,
     token_from_chain_contract    |-> token_from_chain_contract,
     to_chain_name                |-> to_chain_name,
     from_chain_w3                |-> from_chain_w3,
     destination_chain_id         |-> destination_chain_id,
     source_pool_id               |-> source_pool_id,
     dest_pool_id                 |-> dest_pool_id,
     stargate_from_chain_contract |-> stargate_from_chain_contract,
     stargate_from_chain_address  |-> stargate_from_chain_address,
     from_chain_explorer          |-> from_chain_explorer,
     gas                          |-> gas]

\* Variant of MatchMode: the match has no case for bsc-avalanche.
MatchMode_missing_case(m, wallet) ==
    CASE m = "polygon-fantom" ->
           <<Kwargs(wallet, polygon.name, usdc.name, polygon.usdc_contract, fantom.name,
                    polygon.w3, fantom.layer_zero_chain_id, usdc.stargate_pool_id, usdc.stargate_pool_id,
                    polygon.stargate_contract, polygon.stargate_address, polygon.explorer, polygon.gas)>>
      [] m = "polygon-avalanche" ->
           <<Kwargs(wallet, polygon.name, usdc.name, polygon.usdc_contract, avalanche.name,
                    polygon.w3, avalanche.layer_zero_chain_id, usdc.stargate_pool_id, usdc.stargate_pool_id,
                    polygon.stargate_contract, polygon.stargate_address, polygon.explorer, polygon.gas)>>
      [] m = "polygon-bsc" ->
           <<Kwargs(wallet, polygon.name, usdc.name, polygon.usdc_contract, bsc.name,
                    polygon.w3, bsc.layer_zero_chain_id, usdc.stargate_pool_id, usdt.stargate_pool_id,
                    polygon.stargate_contract, polygon.stargate_address, polygon.explorer, polygon.gas)>>
      [] m = "fantom-polygon" ->
           <<Kwargs(wallet, fantom.name, usdc.name, fantom.usdc_contract, polygon.name,
                    fantom.w3, polygon.layer_zero_chain_id, usdc.stargate_pool_id, usdc.stargate_pool_id,
                    fantom.stargate_contract, fantom.stargate_address, fantom.explorer, fantom.gas)>>
      [] m = "fantom-avalanche" ->
           <<Kwargs(wallet, fantom.name, usdc.name, fantom.usdc_contract, avalanche.name,
                    fantom.w3, avalanche.layer_zero_chain_id, usdc.stargate_pool_id, usdc.stargate_pool_id,
                    fantom.stargate_contract, fantom.stargate_address, fantom.explorer, fantom.gas)>>
      [] m = "fantom-bsc" ->
           <<Kwargs(wallet, fantom.name, usdc.name, fantom.usdc_contract, bsc.name,
                    fantom.w3, bsc.layer_zero_chain_id, usdc.stargate_pool_id, usdt.stargate_pool_id,
                    fantom.stargate_contract, fantom.stargate_address, fantom.explorer, fantom.gas)>>
      [] m = "avalanche-polygon" ->
           <<Kwargs(wallet, avalanche.name, usdc.name, avalanche.usdc_contract, polygon.name,
                    avalanche.w3, polygon.layer_zero_chain_id, usdc.stargate_pool_id, usdc.stargate_pool_id,
                    avalanche.stargate_contract, avalanche.stargate_address, avalanche.explorer, avalanche.gas)>>
      [] m = "avalanche-fantom" ->
           <<Kwargs(wallet, avalanche.name, usdc.name, avalanche.usdc_contract, fantom.name,
                    avalanche.w3, fantom.layer_zero_chain_id, usdc.stargate_pool_id, usdc.stargate_pool_id,
                    avalanche.stargate_contract, avalanche.stargate_address, avalanche.explorer, avalanche.gas)>>
      [] m = "avalanche-bsc" ->
           <<Kwargs(wallet, avalanche.name, usdc.name, avalanche.usdc_contract, bsc.name,
                    avalanche.w3, bsc.layer_zero_chain_id, usdc.stargate_pool_id, usdt.stargate_pool_id,
                    avalanche.stargate_contract, avalanche.stargate_address, avalanche.explorer, avalanche.gas)>>
      [] m = "bsc-polygon" ->
           <<Kwargs(wallet, bsc.name, usdt.name, bsc.usdt_contract, polygon.name,
                    bsc.w3, polygon.layer_zero_chain_id, usdt.stargate_pool_id, usdc.stargate_pool_id,
                    bsc.stargate_contract, bsc.stargate_address, bsc.explorer, bsc.gas)>>
      [] m = "bsc-fantom" ->
           <<Kwargs(wallet, bsc.name, usdt.name, bsc.usdt_contract, fantom.name,
                    bsc.w3, fantom.layer_zero_chain_id, usdt.stargate_pool_id, usdc.stargate_pool_id,
                    bsc.stargate_contract, bsc.stargate_address, bsc.explorer, bsc.gas)>>
      [] OTHER -> <<>>

\* Variant of MatchMode: the fantom-avalanche case passes the explorer of polygon.
MatchMode_pasted_explorer(m, wallet) ==
    CASE m = "polygon-fantom" ->
           <<Kwargs(wallet, polygon.name, usdc.name, polygon.usdc_contract, fantom.name,
                    polygon.w3, fantom.layer_zero_chain_id, usdc.stargate_pool_id, usdc.stargate_pool_id,
                    polygon.stargate_contract, polygon.stargate_address, polygon.explorer, polygon.gas)>>
      [] m = "polygon-avalanche" ->
           <<Kwargs(wallet, polygon.name, usdc.name, polygon.usdc_contract, avalanche.name,
                    polygon.w3, avalanche.layer_zero_chain_id, usdc.stargate_pool_id, usdc.stargate_pool_id,
                    polygon.stargate_contract, polygon.stargate_address, polygon.explorer, polygon.gas)>>
      [] m = "polygon-bsc" ->
           <<Kwargs(wallet, polygon.name, usdc.name, polygon.usdc_contract, bsc.name,
                    polygon.w3, bsc.layer_zero_chain_id, usdc.stargate_pool_id, usdt.stargate_pool_id,
                    polygon.stargate_contract, polygon.stargate_address, polygon.explorer, polygon.gas)>>
      [] m = "fantom-polygon" ->
           <<Kwargs(wallet, fantom.name, usdc.name, fantom.usdc_contract, polygon.name,
                    fantom.w3, polygon.layer_zero_chain_id, usdc.stargate_pool_id, usdc.stargate_pool_id,
                    fantom.stargate_contract, fantom.stargate_address, fantom.explorer, fantom.gas)>>
      [] m = "fantom-avalanche" ->
           <<Kwargs(wallet, fantom.name, usdc.name, fantom.usdc_contract, avalanche.name,
                    fantom.w3, avalanche.layer_zero_chain_id, usdc.stargate_pool_id, usdc.stargate_pool_id,
                    fantom.stargate_contract, fantom.stargate_address, polygon.explorer, fantom.gas)>>
      [] m = "fantom-bsc" ->
           <<Kwargs(wallet, fantom.name, usdc.name, fantom.usdc_contract, bsc.name,
                    fantom.w3, bsc.layer_zero_chain_id, usdc.stargate_pool_id, usdt.stargate_pool_id,
                    fantom.stargate_contract, fantom.stargate_address, fantom.explorer, fantom.gas)>>
      [] m = "avalanche-polygon" ->
           <<Kwargs(wallet, avalanche.name, usdc.name, avalanche.usdc_contract, polygon.name,
                    avalanche.w3, polygon.layer_zero_chain_id, usdc.stargate_pool_id, usdc.stargate_pool_id,
                    avalanche.stargate_contract, avalanche.stargate_address, avalanche.explorer, avalanche.gas)>>
      [] m = "avalanche-fantom" ->
           <<Kwargs(wallet, avalanche.name, usdc.name, avalanche.usdc_contract, fantom.name,
                    avalanche.w3, fantom.layer_zero_chain_id, usdc.stargate_pool_id, usdc.stargate_pool_id,
                    avalanche.stargate_contract, avalanche.stargate_address, avalanche.explorer, avalanche.gas)>>
      [] m = "avalanche-bsc" ->
           <<Kwargs(wallet, avalanche.name, usdc.name, avalanche.usdc_contract, bsc.name,
                    avalanche.w3, bsc.layer_zero_chain_id, usdc.stargate_pool_id, usdt.stargate_pool_id,
                    avalanche.stargate_contract, avalanche.stargate_address, avalanche.explorer, avalanche.gas)>>
      [] m = "bsc-polygon" ->
           <<Kwargs(wallet, bsc.name, usdt.name, bsc.usdt_contract, polygon.name,
                    bsc.w3, polygon.layer_zero_chain_id, usdt.stargate_pool_id, usdc.stargate_pool_id,
                    bsc.stargate_contract, bsc.stargate_address, bsc.explorer, bsc.gas)>>
      [] m = "bsc-fantom" ->
           <<Kwargs(wallet, bsc.name, usdt.name, bsc.usdt_contract, fantom.name,
                    bsc.w3, fantom.layer_zero_chain_id, usdt.stargate_pool_id, usdc.stargate_pool_id,
                    bsc.stargate_contract, bsc.stargate_address, bsc.explorer, bsc.gas)>>
      [] m = "bsc-avalanche" ->
           <<Kwargs(wallet, bsc.name, usdt.name, bsc.usdt_contract, avalanche.name,
                    bsc.w3, avalanche.layer_zero_chain_id, usdt.stargate_pool_id, usdc.stargate_pool_id,
                    bsc.stargate_contract, bsc.stargate_address, bsc.explorer, bsc.gas)>>
      [] OTHER -> <<>>

(***************************************************************************)
(* `match mode`: the list of kwargs appended for one wallet (one element   *)
(* for a handled mode, none when no case matches).                         *)
(***************************************************************************)
MatchMode(m, wallet) ==
    CASE m = "polygon-fantom" ->
           <<Kwargs(wallet, polygon.name, usdc.name, polygon.usdc_contract, fantom.name,
                    polygon.w3, fantom.layer_zero_chain_id, usdc.stargate_pool_id, usdc.stargate_pool_id,
                    polygon.stargate_contract, polygon.stargate_address, polygon.explorer, polygon.gas)>>
      [] m = "polygon-avalanche" ->
           <<Kwargs(wallet, polygon.name, usdc.name, polygon.usdc_contract, avalanche.name,
                    polygon.w3, avalanche.layer_zero_chain_id, usdc.stargate_pool_id, usdc.stargate_pool_id,
                    polygon.stargate_contract, polygon.stargate_address, polygon.explorer, polygon.gas)>>
      [] m = "polygon-bsc" ->
           <<Kwargs(wallet, polygon.name, usdc.name, polygon.usdc_contract, bsc.name,
                    polygon.w3, bsc.layer_zero_chain_id, usdc.stargate_pool_id, usdt.stargate_pool_id,
                    polygon.stargate_contract, polygon.stargate_address, polygon.explorer, polygon.gas)>>
      [] m = "fantom-polygon" ->
           <<Kwargs(wallet, fantom.name, usdc.name, fantom.usdc_contract, polygon.name,
                    fantom.w3, polygon.layer_zero_chain_id, usdc.stargate_pool_id, usdc.stargate_pool_id,
                    fantom.stargate_contract, fantom.stargate_address, fantom.explorer, fantom.gas)>>
      [] m = "fantom-avalanche" ->
           <<Kwargs(wallet, fantom.name, usdc.name, fantom.usdc_contract, avalanche.name,
                    fantom.w3, avalanche.layer_zero_chain_id, usdc.stargate_pool_id, usdc.stargate_pool_id,
                    fantom.stargate_contract, fantom.stargate_address, fantom.explorer, fantom.gas)>>
      [] m = "fantom-bsc" ->
           <<Kwargs(wallet, fantom.name, usdc.name, fantom.usdc_contract, bsc.name,
                    fantom.w3, bsc.layer_zero_chain_id, usdc.stargate_pool_id, usdt.stargate_pool_id,
                    fantom.stargate_contract, fantom.stargate_address, fantom.explorer, fantom.gas)>>
      [] m = "avalanche-polygon" ->
           <<Kwargs(wallet, avalanche.name, usdc.name, avalanche.usdc_contract, polygon.name,
                    avalanche.w3, polygon.layer_zero_chain_id, usdc.stargate_pool_id, usdc.stargate_pool_id,
                    avalanche.stargate_contract, avalanche.stargate_address, avalanche.explorer, avalanche.gas)>>
      [] m = "avalanche-fantom" ->
           <<Kwargs(wallet, avalanche.name, usdc.name, avalanche.usdc_contract, fantom.name,
                    avalanche.w3, fantom.layer_zero_chain_id, usdc.stargate_pool_id, usdc.stargate_pool_id,
                    avalanche.stargate_contract, avalanche.stargate_address, avalanche.explorer, avalanche.gas)>>
      [] m = "avalanche-bsc" ->
           <<Kwargs(wallet, avalanche.name, usdc.name, avalanche.usdc_contract, bsc.name,
                    avalanche.w3, bsc.layer_zero_chain_id, usdc.stargate_pool_id, usdt.stargate_pool_id,
                    avalanche.stargate_contract, avalanche.stargate_address, avalanche.explorer, avalanche.gas)>>
      [] m = "bsc-polygon" ->
           <<Kwargs(wallet, bsc.name, usdt.name, bsc.usdt_contract, polygon.name,
                    bsc.w3, polygon.layer_zero_chain_id, usdt.stargate_pool_id, usdc.stargate_pool_id,
                    bsc.stargate_contract, bsc.stargate_address, bsc.explorer, bsc.gas)>>
      [] m = "bsc-fantom" ->
           <<Kwargs(wallet, bsc.name, usdt.name, bsc.usdt_contract, fantom.name,
                    bsc.w3, fantom.layer_zero_chain_id, usdt.stargate_pool_id, usdc.stargate_pool_id,
                    bsc.stargate_contract, bsc.stargate_address, bsc.explorer, bsc.gas)>>
      [] m = "bsc-avalanche" ->
           <<Kwargs(wallet, bsc.name, usdt.name, bsc.usdt_contract, avalanche.name,
                    bsc.w3, avalanche.layer_zero_chain_id, usdt.stargate_pool_id, usdc.stargate_pool_id,
                    bsc.stargate_contract, bsc.stargate_address, bsc.explorer, bsc.gas)>>
      [] OTHER -> <<>>

(***************************************************************************)
(* External collaborators of chain_to_chain.  An awaited call either       *)
(* returns one of the listed values or raises one of Errors.               *)
(***************************************************************************)
wallet_public_address(wallet) == <<"address", wallet>>

\* Runs of at most one wallet are explored in depth (longer delays, more
\* polls, more return values); runs of several wallets explore the
\* interleavings of the tasks over shorter delays, fewer polls and one
\* return value of each kind.
Deep == Len(PRIVATE_KEYS) <= 1

AmountResults  == IF Deep THEN {<<2, 1>>, <<5, 4>>} ELSE {<<2, 1>>}   \* (amount_to_swap, min_amount)
BalanceResults == IF Deep THEN {0, 1, 3} ELSE {0, 1}    \* 0 is falsy
TxHashes       == IF Deep THEN {<<171>>, <<18>>} ELSE {<<171>>}   \* byte strings
Errors         == {"RpcError"}

\* Python truthiness of the local `balance` (None and 0 are falsy).
Truthy(b) == b # None /\ b[1] # 0

\* bytes.hex(): two lowercase hexadecimal digits per byte.
HexDigit(n) ==
    <<"0", "1", "2", "3", "4", "5", "6", "7", "8", "9", "a", "b", "c", "d", "e", "f">>[n + 1]

RECURSIVE hex(_)
hex(bs) ==
    IF bs = <<>> THEN <<>>
    ELSE <<HexDigit(bs[1] \div 16), HexDigit(bs[1] % 16)>> \o hex(Tail(bs))

(***************************************************************************)
(* Calling chain_to_chain(...) creates a coroutine object: nothing of its  *)
(* body has run yet.                                                       *)
(***************************************************************************)
chain_to_chain(kw) ==
    [kw             |-> kw,
     pc             |-> "created",
     address        |-> None,
     amounts        |-> None,     \* <<amount_to_swap, min_amount>> once computed
     start_delay    |-> 0,
     i              |-> 0,
     balance        |-> None,
     logger_cntr    |-> 0,
     log            |-> <<>>,     \* logger records of this coroutine
     calls          |-> <<>>,     \* external calls made, in order
     resp           |-> <<>>,     \* what each completed call returned or raised
     slept          |-> 0,        \* time units spent in asyncio.sleep
     result         |-> None]     \* <<"returned">> or <<exception>> once finished

Terminal(t) == t.pc \in {"done", "failed", "cancelled"}

LogRec(level, tag, address, args) ==
    [level |-> level, tag |-> tag, address |-> address, args |-> args]

Call(name, args) == [name |-> name, args |-> args]

Returned(name, v) == [name |-> name, raised |-> FALSE, value |-> <<v>>]
Raised(name, e)   == [name |-> name, raised |-> TRUE,  value |-> <<e>>]

\* Variant of SendArgs: the recipient is the router, not the wallet's address.
SendArgs_to_router(t) ==
    [wallet           |-> t.kw.wallet,
     from_chain_w3    |-> t.kw.from_chain_w3,
     transaction_info |->
        [chain_id       |-> t.kw.destination_chain_id,
         source_pool_id |-> t.kw.source_pool_id,
         dest_pool_id   |-> t.kw.dest_pool_id,
         refund_address |-> t.address,
         amount_in      |-> t.amounts[1],
         amount_out_min |-> t.amounts[2],
         lz_tx_obj      |-> <<"0", "0", "0x0000000000000000000000000000000000000001">>,
         to             |-> <<t.kw.stargate_from_chain_address>>,
         data           |-> "0x"],
     stargate_from_chain_contract |-> t.kw.stargate_from_chain_contract,
     stargate_from_chain_address  |-> t.kw.stargate_from_chain_address,
     token_from_chain_contract    |-> t.kw.token_from_chain_contract,
     from_chain_name              |-> t.kw.from_chain_name,
     token                        |-> t.kw.token,
     amount_to_swap               |-> t.amounts[1],
     from_chain_explorer          |-> t.kw.from_chain_explorer,
     gas                          |-> t.kw.gas]

\* Variant of SendArgs: the observed balance is sent instead of the computed amount.
SendArgs_whole_balance(t) ==
    [wallet           |-> t.kw.wallet,
     from_chain_w3    |-> t.kw.from_chain_w3,
     transaction_info |->
        [chain_id       |-> t.kw.destination_chain_id,
         source_pool_id |-> t.kw.source_pool_id,
         dest_pool_id   |-> t.kw.dest_pool_id,
         refund_address |-> t.address,
         amount_in      |-> t.balance[1],
         amount_out_min |-> t.amounts[2],
         lz_tx_obj      |-> <<"0", "0", "0x0000000000000000000000000000000000000001">>,
         to             |-> t.address,
         data           |-> "0x"],
     stargate_from_chain_contract |-> t.kw.stargate_from_chain_contract,
     stargate_from_chain_address  |-> t.kw.stargate_from_chain_address,
     token_from_chain_contract    |-> t.kw.token_from_chain_contract,
     from_chain_name              |-> t.kw.from_chain_name,
     token                        |-> t.kw.token,
     amount_to_swap               |-> t.amounts[1],
     from_chain_explorer          |-> t.kw.from_chain_explorer,
     gas                          |-> t.kw.gas]

\* The request handed to send_token_chain_to_chain.
SendArgs(t) ==
    [wallet           |-> t.kw.wallet,
     from_chain_w3    |-> t.kw.from_chain_w3,
     transaction_info |->
        [chain_id       |-> t.kw.destination_chain_id,
         source_pool_id |-> t.kw.source_pool_id,
         dest_pool_id   |-> t.kw.dest_pool_id,
         refund_address |-> t.address,
         amount_in      |-> t.amounts[1],
         amount_out_min |-> t.amounts[2],
         lz_tx_obj      |-> <<"0", "0", "0x0000000000000000000000000000000000000001">>,
         to             |-> t.address,
         data           |-> "0x"],
     stargate_from_chain_contract |-> t.kw.stargate_from_chain_contract,
     stargate_from_chain_address  |-> t.kw.stargate_from_chain_address,
     token_from_chain_contract    |-> t.kw.token_from_chain_contract,
     from_chain_name              |-> t.kw.from_chain_name,
     token                        |-> t.kw.token,
     amount_to_swap               |-> t.amounts[1],
     from_chain_explorer          |-> t.kw.from_chain_explorer,
     gas                          |-> t.kw.gas]

\* Variant of Propagate: a failed submission is sent a second time.
Propagate_resubmit(t, name, e) ==
    IF /\ name = "send_token_chain_to_chain"
       /\ \A k \in DOMAIN t.resp : ~t.resp[k].raised
    THEN [t EXCEPT !.resp = Append(@, Raised(name, e)),
                   !.calls = Append(@, t.calls[Len(t.calls)])]
    ELSE [t EXCEPT !.pc = "failed", !.resp = Append(@, Raised(name, e)), !.result = <<e>>]

\* Variant of Propagate: an exception of the balance query is caught in the
\* loop and the poll counts as not ready.
Propagate_caught(t, name, e) ==
    IF name = "is_balance_updated"
    THEN [t EXCEPT !.resp = Append(@, Raised(name, e)),
                   !.logger_cntr = @ + 1,
                   !.pc = "poll_sleep"]
    ELSE [t EXCEPT !.pc = "failed", !.resp = Append(@, Raised(name, e)), !.result = <<e>>]

(***************************************************************************)
(* An exception raised by an awaited call: chain_to_chain has no           *)
(* try/except, so the exception ends the coroutine and becomes its result. *)
(***************************************************************************)
Propagate(t, name, e) ==
    [t EXCEPT !.pc = "failed", !.resp = Append(@, Raised(name, e)), !.result = <<e>>]

\* Variant of LoopContinues: `while balance`.
LoopContinues_inverted(t) == Truthy(t.balance)

\* Variant of LoopContinues: the loop waits until the balance covers the amount.
LoopContinues_until_covered(t) == t.balance = None \/ t.balance[1] < t.amounts[1]

\* Variant of LoopContinues: the loop gives up after two polls.
LoopContinues_capped(t) == ~Truthy(t.balance) /\ t.logger_cntr < 2

\* `while not balance`, evaluated on the locals of the coroutine
LoopContinues(t) == ~Truthy(t.balance)

\* Variant of LogsThisPoll: the record is written on the third poll of each three.
LogsThisPoll_third(cntr) == (cntr + 1) % LogEvery = 0

\* `if logger_cntr % 3 == 0`
LogsThisPoll(cntr) == cntr % LogEvery = 0

\* Variant of return_exceptions: the keyword is left at its default.
return_exceptions_default == FALSE

\* asyncio.gather(*tasks, return_exceptions=True)
return_exceptions == TRUE

(***************************************************************************)
(* Inputs of a run.                                                        *)
(***************************************************************************)
ArgvChoices == {<<>>} \cup {<<c>> : c \in ModeChoices \cup {"xx"}}

\* Lists of distinct keys 1..n, and one list naming the same key twice.
WalletLists == {[k \in 1..n |-> k] : n \in 0..MaxWallets} \cup {<<1, 1>>}

\* Every command line is explored with at most one wallet; the lists of
\* several wallets are explored with the command lines of BatchArgv.
BatchArgv == {<<>>, <<"xx">>, <<"pb">>}

Init ==
    /\ argv \in ArgvChoices
    /\ PRIVATE_KEYS \in WalletLists
    /\ Len(PRIVATE_KEYS) <= 1 \/ argv \in BatchArgv
    /\ mainpc = "parse_args"
    /\ args_mode = None
    /\ mode = None
    /\ widx = 0
    /\ tasks = <<>>
    /\ stdout = <<>>
    /\ stderr = <<>>
    /\ mainlog = <<>>
    /\ exit_code = None

(***************************************************************************)
(* main()                                                                  *)
(***************************************************************************)
\* parser.parse_args(): a --mode value outside `choices` makes argparse
\* report the error on standard error and exit with status 2.
ParseArgs ==
    /\ mainpc = "parse_args"
    /\ IF argv # <<>> /\ argv[1] \notin ModeChoices
       THEN /\ stderr' = Append(stderr, "argparse: invalid choice")
            /\ exit_code' = <<UsageExit>>
            /\ mainpc' = "exited"
            /\ UNCHANGED args_mode
       ELSE /\ args_mode' = argv
            /\ mainpc' = "check_mode"
            /\ UNCHANGED <<stderr, exit_code>>
    /\ UNCHANGED <<argv, PRIVATE_KEYS, mode, widx, tasks, stdout, mainlog>>

\* Variant of ModeMissing: the test never fires.
ModeMissing_never(m) == FALSE

\* `if args.mode is None`
ModeMissing(m) == m = None

\* print(...): the stream the message is written to.
PrintStream == "stdout"

\* Lines 142-148: the missing-mode exit, else mode lookup and `tasks = []`.
CheckMode ==
    /\ mainpc = "check_mode"
    /\ IF ModeMissing(args_mode)
       THEN /\ stdout' = IF PrintStream = "stdout"
                         THEN Append(stdout, "Error: the --mode argument is required")
                         ELSE stdout
            /\ stderr' = IF PrintStream = "stderr"
                         THEN Append(stderr, "Error: the --mode argument is required")
                         ELSE stderr
            /\ exit_code' = <<UsageExit>>
            /\ mainpc' = "exited"
            /\ UNCHANGED mode
       ELSE IF args_mode = None \/ args_mode[1] \notin DOMAIN mode_mapping
       THEN \* mode_mapping[args.mode] with a key it does not have: KeyError, uncaught
            /\ stderr' = Append(stderr, "Traceback: KeyError")
            /\ exit_code' = <<1>>
            /\ mainpc' = "exited"
            /\ UNCHANGED <<stdout, mode>>
       ELSE /\ mode' = <<mode_mapping[args_mode[1]]>>
            /\ mainpc' = "build"
            /\ UNCHANGED <<stdout, stderr, exit_code>>
    /\ UNCHANGED <<argv, PRIVATE_KEYS, args_mode, widx, tasks, mainlog>>

\* One iteration of `for wallet in PRIVATE_KEYS: match mode: ... tasks.append(...)`.
AppendTask ==
    /\ mainpc = "build"
    /\ widx < Len(PRIVATE_KEYS)
    /\ LET wallet == PRIVATE_KEYS[widx + 1]
           made   == MatchMode(mode[1], wallet)
       IN  tasks' = tasks \o [k \in 1..Len(made) |-> chain_to_chain(made[k])]
    /\ widx' = widx + 1
    /\ UNCHANGED <<argv, PRIVATE_KEYS, mainpc, args_mode, mode, stdout, stderr,
                   mainlog, exit_code>>

\* Lines 369-370: log the route, hand every coroutine to asyncio.gather
\* (which schedules each one as a task) and suspend main on the gather.
StartGather ==
    /\ mainpc = "build"
    /\ widx = Len(PRIVATE_KEYS)
    /\ mainlog' = Append(mainlog, LogRec("INFO", "Bridging", None, <<mode_mapping[args_mode[1]]>>))
    /\ tasks' = [w \in DOMAIN tasks |-> [tasks[w] EXCEPT !.pc = "scheduled"]]
    /\ mainpc' = "gather"
    /\ UNCHANGED <<argv, PRIVATE_KEYS, args_mode, mode, widx, stdout, stderr, exit_code>>

\* Variant of GatherDone: the wait returns when the first task has finished.
GatherDone_first_completed ==
    tasks = <<>> \/ \E w \in DOMAIN tasks : Terminal(tasks[w])

\* The gather future completes when every task is finished; without
\* return_exceptions it completes as soon as one task has raised.
GatherDone ==
    \/ \A w \in DOMAIN tasks : Terminal(tasks[w])
    \/ ~return_exceptions /\ \E w \in DOMAIN tasks : tasks[w].pc = "failed"

\* Lines 370-372 after the await: with return_exceptions the exceptions are
\* results, main logs the final record and returns.  Otherwise the first
\* exception is re-raised in main, asyncio.run cancels what is still
\* running and the process ends with a traceback.
GatherResolve ==
    /\ mainpc = "gather"
    /\ GatherDone
    /\ IF return_exceptions \/ \A w \in DOMAIN tasks : tasks[w].pc # "failed"
       THEN /\ mainlog' = Append(mainlog, LogRec("SUCCESS", "*** FINISHED ***", None, <<>>))
            /\ mainpc' = "finished"
            /\ exit_code' = <<0>>
            /\ UNCHANGED <<tasks, stderr>>
       ELSE /\ tasks' = [w \in DOMAIN tasks |->
                            IF Terminal(tasks[w]) THEN tasks[w]
                            ELSE [tasks[w] EXCEPT !.pc = "cancelled",
                                                  !.result = <<"CancelledError">>]]
            /\ stderr' = Append(stderr, "Traceback: task exception")
            /\ mainpc' = "exited"
            /\ exit_code' = <<1>>
            /\ UNCHANGED mainlog
    /\ UNCHANGED <<argv, PRIVATE_KEYS, args_mode, mode, widx, stdout>>

(***************************************************************************)
(* chain_to_chain(): one action per resumption of the coroutine.  A task   *)
(* runs only while the event loop is running main's gather.                *)
(***************************************************************************)
DecimalsResults == {6}

\* random.randint(1, 200): the delays up to the largest one explored and,
\* in a run of at most one wallet, the largest delay the call can return.
StartDelays ==
    IF Deep THEN (JitterLo..Min(JitterHi, MaxDelay)) \cup {JitterHi}
    ELSE JitterLo..Min(JitterHi, BatchDelay)

\* The number of polls explored per task (the loop itself has no cap).
PollCap == IF Deep THEN MaxPolls ELSE BatchPolls

Running(w) == mainpc = "gather" /\ w \in DOMAIN tasks

Step(w, t) ==
    /\ tasks' = [tasks EXCEPT ![w] = t]
    /\ UNCHANGED <<argv, PRIVATE_KEYS, mainpc, args_mode, mode, widx, stdout, stderr,
                   mainlog, exit_code>>

\* Variant of EnterBalanceLoop: the first balance query is made before any
\* asyncio.sleep(30).
EnterBalanceLoop_query_first(t) ==
    [t EXCEPT !.balance = None, !.logger_cntr = 0, !.pc = "balance",
              !.calls = Append(@, Call("is_balance_updated",
                                       <<t.address[1], t.kw.token,
                                         t.kw.token_from_chain_contract>>))]

\* Lines 67-70: balance = None, logger_cntr = 0, first test of the loop
\* condition; an entered loop suspends in asyncio.sleep(30).
EnterBalanceLoop(t) ==
    LET t1 == [t EXCEPT !.balance = None, !.logger_cntr = 0]
    IN  IF LoopContinues(t1)
        THEN [t1 EXCEPT !.pc = "poll_sleep"]
        ELSE [t1 EXCEPT !.pc = "decimals",
                        !.calls = Append(@, Call("get_token_decimals",
                                                 <<t.kw.token_from_chain_contract>>))]

\* Lines 53-56: first run of the task, up to the await of the amount helper.
TaskStart(w) ==
    /\ Running(w)
    /\ tasks[w].pc = "scheduled"
    /\ Step(w, [tasks[w] EXCEPT
                  !.address = <<wallet_public_address(tasks[w].kw.wallet)>>,
                  !.calls = Append(@, Call("get_correct_amount_and_min_amount",
                                           <<tasks[w].kw.token_from_chain_contract>>)),
                  !.pc = "amount"])

\* Lines 55-64: the amounts arrive, the start delay is drawn and logged,
\* and the first asyncio.sleep(1) of the delay loop is awaited.
AmountReturn(w, r, d) ==
    /\ Running(w)
    /\ tasks[w].pc = "amount"
    /\ LET t1 == [tasks[w] EXCEPT
                    !.amounts = r,
                    !.resp = Append(@, Returned("get_correct_amount_and_min_amount", r)),
                    !.start_delay = d,
                    !.i = 0,
                    !.log = Append(@, LogRec("INFO", "START DELAY", tasks[w].address[1], <<d>>))]
       IN  Step(w, IF d > 0 THEN [t1 EXCEPT !.pc = "start_delay"]
                   ELSE EnterBalanceLoop(t1))

\* Lines 63-70: one asyncio.sleep(1) of the delay loop elapses.
DelayTick(w) ==
    /\ Running(w)
    /\ tasks[w].pc = "start_delay"
    /\ LET t1 == [tasks[w] EXCEPT !.i = @ + 1, !.slept = @ + JitterTick]
       IN  Step(w, IF t1.i < t1.start_delay THEN t1 ELSE EnterBalanceLoop(t1))

\* Lines 70-73: asyncio.sleep(30) elapses, the record of every third poll
\* is logged and is_balance_updated is awaited.
PollWake(w) ==
    /\ Running(w)
    /\ tasks[w].pc = "poll_sleep"
    /\ tasks[w].logger_cntr < PollCap
    /\ LET t == tasks[w]
       IN  Step(w, [t EXCEPT
                      !.slept = @ + PollInterval,
                      !.log = IF LogsThisPoll(t.logger_cntr)
                              THEN Append(@, LogRec("INFO", "BALANCE", t.address[1],
                                                    <<t.kw.from_chain_name, t.kw.token>>))
                              ELSE @,
                      !.calls = Append(@, Call("is_balance_updated",
                                               <<t.address[1], t.kw.token,
                                                 t.kw.token_from_chain_contract>>)),
                      !.pc = "balance"])

\* Lines 73-78 and 69: the balance arrives, the counter advances and the
\* loop condition is tested again; a finished loop awaits get_token_decimals.
BalanceReturn(w, b) ==
    /\ Running(w)
    /\ tasks[w].pc = "balance"
    /\ LET t1 == [tasks[w] EXCEPT
                    !.balance = <<b>>,
                    !.resp = Append(@, Returned("is_balance_updated", b)),
                    !.logger_cntr = @ + 1]
       IN  Step(w, IF LoopContinues(t1)
                   THEN [t1 EXCEPT !.pc = "poll_sleep"]
                   ELSE [t1 EXCEPT !.pc = "decimals",
                                   !.calls = Append(@, Call("get_token_decimals",
                                                <<t1.kw.token_from_chain_contract>>))])

\* Lines 76-107: the decimals arrive, the BRIDGING record is logged and
\* send_token_chain_to_chain is awaited.
DecimalsReturn(w, n) ==
    /\ Running(w)
    /\ tasks[w].pc = "decimals"
    /\ LET t == tasks[w]
       IN  Step(w, [t EXCEPT
                      !.resp = Append(@, Returned("get_token_decimals", n)),
                      !.log = Append(@, LogRec("INFO", "BRIDGING", t.address[1],
                                               <<t.amounts[1], n, t.kw.token,
                                                 t.kw.from_chain_name, t.kw.to_chain_name>>)),
                      !.calls = Append(@, Call("send_token_chain_to_chain", <<SendArgs(t)>>)),
                      !.pc = "submit"])

\* Variant of SubmitReturn: only the source-chain explorer record is logged.
SubmitReturn_one_record(w, h) ==
    /\ Running(w)
    /\ tasks[w].pc = "submit"
    /\ LET t == tasks[w]
       IN  Step(w, [t EXCEPT
                      !.resp = Append(@, Returned("send_token_chain_to_chain", h)),
                      !.log = @ \o <<LogRec("SUCCESS", t.kw.from_chain_name, t.address[1],
                                            <<t.kw.from_chain_explorer, hex(h)>>)>>,
                      !.result = <<"None">>,
                      !.pc = "done"])

\* Lines 108-111: the transaction hash arrives, both success records are
\* logged and the coroutine returns.
SubmitReturn(w, h) ==
    /\ Running(w)
    /\ tasks[w].pc = "submit"
    /\ LET t == tasks[w]
       IN  Step(w, [t EXCEPT
                      !.resp = Append(@, Returned("send_token_chain_to_chain", h)),
                      !.log = @ \o <<LogRec("SUCCESS", t.kw.from_chain_name, t.address[1],
                                            <<t.kw.from_chain_explorer, hex(h)>>),
                                     LogRec("SUCCESS", "LAYERZEROSCAN", t.address[1],
                                            <<"layerzeroscan.com", hex(h)>>)>>,
                      !.result = <<"None">>,
                      !.pc = "done"])

\* The name of the external call a suspended task is awaiting.
Awaited(t) ==
    CASE t.pc = "amount"   -> "get_correct_amount_and_min_amount"
      [] t.pc = "balance"  -> "is_balance_updated"
      [] t.pc = "decimals" -> "get_token_decimals"
      [] t.pc = "submit"   -> "send_token_chain_to_chain"

\* The awaited external call raises instead of returning.
CallRaises(w, e) ==
    /\ Running(w)
    /\ tasks[w].pc \in {"amount", "balance", "decimals", "submit"}
    /\ Step(w, Propagate(tasks[w], Awaited(tasks[w]), e))

Next ==
    \/ ParseArgs
    \/ CheckMode
    \/ AppendTask
    \/ StartGather
    \/ GatherResolve
    \/ \E w \in DOMAIN tasks : TaskStart(w)
    \/ \E w \in DOMAIN tasks, r \in AmountResults, d \in StartDelays : AmountReturn(w, r, d)
    \/ \E w \in DOMAIN tasks : DelayTick(w)
    \/ \E w \in DOMAIN tasks : PollWake(w)
    \/ \E w \in DOMAIN tasks, b \in BalanceResults : BalanceReturn(w, b)
    \/ \E w \in DOMAIN tasks, n \in DecimalsResults : DecimalsReturn(w, n)
    \/ \E w \in DOMAIN tasks, h \in TxHashes : SubmitReturn(w, h)
    \/ \E w \in DOMAIN tasks, e \in Errors : CallRaises(w, e)

Spec == Init /\ [][Next]_vars

(***************************************************************************)
(* Scheduling.  asyncio.run drives main to completion; the event loop runs *)
(* every task that is ready, so a task whose sleep has elapsed or whose    *)
(* awaited call has completed is resumed.  FairSpec adds to Spec that main *)
(* and each task keep taking their steps: sleeps elapse and awaited calls  *)
(* return or raise.  Which value a balance query returns stays free.       *)
(***************************************************************************)
MainStep == ParseArgs \/ CheckMode \/ AppendTask \/ StartGather \/ GatherResolve

TaskStep(w) ==
    \/ TaskStart(w)
    \/ \E r \in AmountResults, d \in StartDelays : AmountReturn(w, r, d)
    \/ DelayTick(w)
    \/ PollWake(w)
    \/ \E b \in BalanceResults : BalanceReturn(w, b)
    \/ \E n \in DecimalsResults : DecimalsReturn(w, n)
    \/ \E h \in TxHashes : SubmitReturn(w, h)
    \/ \E e \in Errors : CallRaises(w, e)

FairSpec ==
    /\ Spec
    /\ WF_vars(MainStep)
    /\ \A w \in 1..(MaxWallets + 1) : WF_vars(TaskStep(w))

(***************************************************************************)
(* Vocabulary of the properties.                                           *)
(***************************************************************************)
SEND    == "send_token_chain_to_chain"
BALANCE == "is_balance_updated"
AMOUNT  == "get_correct_amount_and_min_amount"
DECIMALS == "get_token_decimals"

\* How many times the task has called the named external function.
NCalls(t, name) == Cardinality({k \in DOMAIN t.calls : t.calls[k].name = name})

\* The responses of the named call, in order.
RespOf(t, name) == SelectSeq(t.resp, LAMBDA r : r.name = name)

\* The values the balance query has returned so far, in order.
BalanceValues(t) ==
    LET rs == SelectSeq(t.resp, LAMBDA r : r.name = BALANCE /\ ~r.raised)
    IN  [k \in DOMAIN rs |-> rs[k].value[1]]

\* Whether the named call has raised in this task.
HasRaised(t, name) == \E k \in DOMAIN t.resp : t.resp[k].name = name /\ t.resp[k].raised

\* Positions at which the balance query returned a truthy value.
TruthyAt(t) == {k \in DOMAIN BalanceValues(t) : BalanceValues(t)[k] # 0}

AllTerminal == \A w \in DOMAIN tasks : Terminal(tasks[w])

FinishedLogged == \E k \in DOMAIN mainlog : mainlog[k].tag = "*** FINISHED ***"

(***************************************************************************)
(* C1.  Every entry of PRIVATE_KEYS has at most one task, that task is for *)
(* the wallet of that entry, and no task calls send_token_chain_to_chain   *)
(* more than once, whether the call returned a hash or raised.  (A key     *)
(* listed twice in PRIVATE_KEYS is two entries, each with its own task.)   *)
(***************************************************************************)
C1_SubmittedAtMostOnce ==
    /\ Len(tasks) <= Len(PRIVATE_KEYS)
    /\ \A w \in DOMAIN tasks :
          /\ tasks[w].kw.wallet = PRIVATE_KEYS[w]
          /\ NCalls(tasks[w], SEND) <= 1

\* A run has finished in which a submission raised, and it was made once.
C1_Witness ==
    /\ mainpc = "finished"
    /\ \E w \in DOMAIN tasks :
          /\ tasks[w].pc = "failed"
          /\ HasRaised(tasks[w], SEND)
          /\ NCalls(tasks[w], SEND) = 1

(***************************************************************************)
(* C2.  A task that has called send_token_chain_to_chain has received a    *)
(* truthy value from a balance query of its own before.                    *)
(***************************************************************************)
C2_SubmitOnlyAfterTruthyBalance ==
    \A w \in DOMAIN tasks :
        NCalls(tasks[w], SEND) > 0 => TruthyAt(tasks[w]) # {}

\* A task is submitting after one falsy and one truthy balance.
C2_Witness ==
    \E w \in DOMAIN tasks :
        /\ tasks[w].pc = "submit"
        /\ Len(BalanceValues(tasks[w])) = 2
        /\ BalanceValues(tasks[w])[1] = 0
        /\ BalanceValues(tasks[w])[2] # 0

(***************************************************************************)
(* C3.  The first truthy balance ends the loop: if the balance query       *)
(* returned falsy k times and then truthy, exactly k+1 queries were made.  *)
(* As first stated, a task that has left the await following the loop has  *)
(* then submitted exactly once.                                            *)
(***************************************************************************)
FirstTruthy(t) == CHOOSE k \in TruthyAt(t) : \A j \in TruthyAt(t) : k <= j

LoopEndedOnFirstTruthy(t) ==
    /\ NCalls(t, BALANCE) = FirstTruthy(t)
    /\ Len(RespOf(t, BALANCE)) = FirstTruthy(t)

C3_Original ==
    \A w \in DOMAIN tasks :
        TruthyAt(tasks[w]) # {} =>
            /\ LoopEndedOnFirstTruthy(tasks[w])
            /\ tasks[w].pc \in {"submit", "done", "failed"} => NCalls(tasks[w], SEND) = 1

(***************************************************************************)
(* C3 as amended.  Between the loop and the submission the task awaits     *)
(* get_token_decimals for the BRIDGING record: if that call returns, the   *)
(* submission is attempted exactly once; if it raises, the task fails and  *)
(* no submission is made.                                                  *)
(***************************************************************************)
C3_LoopEndsThenOneSubmission ==
    \A w \in DOMAIN tasks :
        TruthyAt(tasks[w]) # {} =>
            /\ LoopEndedOnFirstTruthy(tasks[w])
            /\ NCalls(tasks[w], SEND) <= 1
            /\ (tasks[w].pc \in {"submit", "done", "failed"} /\ ~HasRaised(tasks[w], DECIMALS))
                  => NCalls(tasks[w], SEND) = 1
            /\ HasRaised(tasks[w], DECIMALS)
                  => tasks[w].pc = "failed" /\ NCalls(tasks[w], SEND) = 0

\* Two falsy balances, a truthy one on the third call, three queries, one submission.
C3_Witness ==
    \E w \in DOMAIN tasks :
        /\ tasks[w].pc = "done"
        /\ Len(BalanceValues(tasks[w])) = 3
        /\ BalanceValues(tasks[w])[1] = 0
        /\ BalanceValues(tasks[w])[2] = 0
        /\ BalanceValues(tasks[w])[3] # 0
        /\ NCalls(tasks[w], BALANCE) = 3
        /\ NCalls(tasks[w], SEND) = 1

(***************************************************************************)
(* C4.  Failures never cross task boundaries.  A step in which one task    *)
(* fails leaves every other task and main as they were; no task is ever    *)
(* cancelled; while some task is unfinished the event loop keeps running   *)
(* the gather, whatever has failed; a finished task's state is decided by  *)
(* the last response it received itself (done after a returned submission, *)
(* failed with the exception that one of its own calls raised); and the    *)
(* gather is ready to resolve as soon as every task is finished.           *)
(***************************************************************************)
LastResp(t) == t.resp[Len(t.resp)]

OwnOutcome(t) ==
    /\ t.pc # "cancelled"
    /\ t.pc = "done" =>
          /\ t.resp # <<>>
          /\ LastResp(t).name = SEND /\ ~LastResp(t).raised
          /\ t.result = <<"None">>
    /\ t.pc = "failed" =>
          /\ t.resp # <<>>
          /\ LastResp(t).raised
          /\ t.result = LastResp(t).value
    /\ (t.resp # <<>> /\ LastResp(t).raised) => t.pc = "failed"
    /\ (t.resp # <<>> /\ LastResp(t).name = SEND /\ ~LastResp(t).raised) => t.pc = "done"

FailureIsLocal ==
    \A w \in DOMAIN tasks :
        (w \in DOMAIN tasks' /\ tasks[w].pc # "failed" /\ tasks'[w].pc = "failed") =>
            /\ \A v \in DOMAIN tasks : v # w => (v \in DOMAIN tasks' /\ tasks'[v] = tasks[v])
            /\ UNCHANGED <<mainpc, mainlog, exit_code, stdout, stderr>>

SiblingsKeepRunning ==
    /\ \A w \in DOMAIN tasks : OwnOutcome(tasks[w])
    /\ (mainpc \in {"gather", "finished", "exited"} /\ tasks # <<>>) =>
          /\ mainpc # "exited"
          /\ ~AllTerminal => mainpc = "gather"
          /\ (mainpc = "gather" /\ AllTerminal) => ENABLED GatherResolve

C4_FailuresStayInTheirTask == [][FailureIsLocal /\ SiblingsKeepRunning']_vars

\* One task failed in its first call, its sibling succeeded, and the gather resolved.
C4_Witness ==
    /\ mainpc = "finished"
    /\ \E w, v \in DOMAIN tasks :
          /\ tasks[w].pc = "failed"
          /\ tasks[w].calls = <<Call(AMOUNT, <<tasks[w].kw.token_from_chain_contract>>)>>
          /\ tasks[v].pc = "done"

(***************************************************************************)
(* C5.  The "*** FINISHED ***" record is logged only when every task is    *)
(* finished; once every task is finished the gather is ready to resolve,   *)
(* and main never leaves the gather otherwise than by logging the record   *)
(* and returning with exit status 0, whatever mix of successes and         *)
(* failures the tasks ended in.                                            *)
(***************************************************************************)
C5_FinishedOnlyAfterAllTasks ==
    /\ FinishedLogged => (AllTerminal /\ mainpc = "finished")
    /\ mainpc = "finished" => (FinishedLogged /\ AllTerminal /\ exit_code = <<0>>)
    /\ (mainpc = "gather" /\ AllTerminal) => ENABLED GatherResolve
    /\ (mainpc = "gather" /\ ~AllTerminal) => ~ENABLED GatherResolve
    /\ (mainpc = "exited" /\ exit_code # <<0>>) => tasks = <<>>

\* The record is logged after every one of several tasks has failed.
C5_Witness ==
    /\ FinishedLogged
    /\ Len(tasks) >= 2
    /\ \A w \in DOMAIN tasks : tasks[w].pc = "failed"

(***************************************************************************)
(* C6.  A run without --mode never gets past the mode test: no coroutine   *)
(* is created and no loop iteration is made, so no external call of any    *)
(* kind is made, and the only way the run ends is exit status 2.           *)
(***************************************************************************)
C6_NoModeExitsBeforeAnyTask ==
    argv = <<>> =>
        /\ mainpc \in {"parse_args", "check_mode", "exited"}
        /\ tasks = <<>>
        /\ widx = 0
        /\ mainlog = <<>>
        /\ mainpc = "exited" <=> exit_code # None
        /\ exit_code # None => exit_code = <<2>>

\* The run without --mode has exited although wallets are configured.
C6_Witness ==
    /\ argv = <<>>
    /\ mainpc = "exited"
    /\ exit_code = <<2>>
    /\ Len(PRIVATE_KEYS) >= 1

(***************************************************************************)
(* C7.  When --mode is absent, the error message is on standard error and  *)
(* not on standard output by the time the process has exited.              *)
(***************************************************************************)
ModeRequiredMsg == "Error: the --mode argument is required"

InStream(stream, msg) == \E k \in DOMAIN stream : stream[k] = msg

C7_NoModeErrorOnStderr ==
    (argv = <<>> /\ mainpc = "exited") =>
        /\ InStream(stderr, ModeRequiredMsg)
        /\ ~InStream(stdout, ModeRequiredMsg)

(***************************************************************************)
(* C8.  Every coroutine built for a mode code is for the ordered pair of   *)
(* distinct chains that the two letters of the code name, with token USDT  *)
(* from bsc and USDC otherwise, the source pool of that token, and the     *)
(* destination pool of USDT towards bsc and of USDC otherwise; and the     *)
(* twelve codes name every ordered pair of distinct chains exactly once.   *)
(***************************************************************************)
Letter(c) ==
    CASE c = "polygon" -> "p" [] c = "fantom" -> "f"
      [] c = "avalanche" -> "a" [] c = "bsc" -> "b"

RouteConsistent(code, kw) ==
    /\ kw.from_chain_name \in ChainNames
    /\ kw.to_chain_name \in ChainNames
    /\ kw.from_chain_name # kw.to_chain_name
    /\ code = Letter(kw.from_chain_name) \o Letter(kw.to_chain_name)
    /\ kw.token = IF kw.from_chain_name = "bsc" THEN "USDT" ELSE "USDC"
    /\ kw.source_pool_id = Token(kw.token).stargate_pool_id
    /\ kw.dest_pool_id = IF kw.to_chain_name = "bsc" THEN Token("USDT").stargate_pool_id
                         ELSE Token("USDC").stargate_pool_id

\* The codes whose case of the match builds a coroutine from src to dst.
CodesFor(src, dst) ==
    {c \in ModeChoices :
        LET made == MatchMode(mode_mapping[c], 1)
        IN  /\ Len(made) = 1
            /\ made[1].from_chain_name = src
            /\ made[1].to_chain_name = dst}

CodesCoverPairsOnce ==
    /\ Cardinality(ModeChoices) = 12
    /\ \A src, dst \in ChainNames :
          Cardinality(CodesFor(src, dst)) = IF src = dst THEN 0 ELSE 1

C8_RoutesConsistent ==
    /\ \A w \in DOMAIN tasks : RouteConsistent(argv[1], tasks[w].kw)
    /\ CodesCoverPairsOnce

\* A polygon-to-bsc coroutine: USDC at the source pool, USDT at the destination pool.
C8_Witness ==
    /\ argv = <<"pb">>
    /\ \E w \in DOMAIN tasks :
          /\ tasks[w].kw.token = "USDC"
          /\ tasks[w].kw.source_pool_id = usdc.stargate_pool_id
          /\ tasks[w].kw.dest_pool_id = usdt.stargate_pool_id

(***************************************************************************)
(* C9.  The balance-wait loop has no cap: a task whose calls have all      *)
(* returned and whose balance queries have all returned falsy, however     *)
(* many there were, has made no submission and is not finished, and as     *)
(* long as there is such a task main is still suspended in the gather and  *)
(* the final record has not been logged.                                   *)
(***************************************************************************)
OnlyFalsySoFar(t) ==
    /\ t.pc \notin {"created", "scheduled"}
    /\ \A k \in DOMAIN t.resp : ~t.resp[k].raised
    /\ TruthyAt(t) = {}

C9_FalsyBalanceBlocksForever ==
    \A w \in DOMAIN tasks :
        OnlyFalsySoFar(tasks[w]) =>
            /\ tasks[w].pc \in {"amount", "start_delay", "poll_sleep", "balance"}
            /\ NCalls(tasks[w], SEND) = 0
            /\ mainpc = "gather"
            /\ ~FinishedLogged
            /\ exit_code = None

\* Every other task is finished, one has had only falsy balances and polls on.
C9_Witness ==
    \E w \in DOMAIN tasks :
        /\ BalanceValues(tasks[w]) = <<0, 0>>
        /\ tasks[w].pc = "poll_sleep"
        /\ Len(tasks) >= 2
        /\ \A v \in DOMAIN tasks : v # w => tasks[v].pc = "done"
        /\ mainpc = "gather"

(***************************************************************************)
(* C10.  A step in which a call of a task raises ends the task in that     *)
(* step: the task is failed with that exception and has started no new     *)
(* call; a failed task never changes again; and a task whose balance query *)
(* raised has made no submission and no query after the failing one.       *)
(***************************************************************************)
RaisesIn(t, u) ==
    /\ Len(u.resp) = Len(t.resp) + 1
    /\ u.resp[Len(u.resp)].raised

UncaughtExceptions ==
    \A w \in DOMAIN tasks :
        w \in DOMAIN tasks' =>
            /\ RaisesIn(tasks[w], tasks'[w]) =>
                  /\ tasks'[w].pc = "failed"
                  /\ tasks'[w].result = tasks'[w].resp[Len(tasks'[w].resp)].value
                  /\ tasks'[w].calls = tasks[w].calls
                  /\ tasks'[w].log = tasks[w].log
            /\ tasks[w].pc = "failed" => tasks'[w] = tasks[w]
            /\ HasRaised(tasks'[w], BALANCE) =>
                  /\ NCalls(tasks'[w], SEND) = 0
                  /\ NCalls(tasks'[w], BALANCE) = Len(RespOf(tasks'[w], BALANCE))
                  /\ LastResp(tasks'[w]).name = BALANCE

C10_ExceptionsEndTheTask == [][UncaughtExceptions]_vars

\* A task failed in its second balance query; a task failed in its submission.
C10_Witness ==
    /\ \E w \in DOMAIN tasks :
          /\ tasks[w].pc = "failed"
          /\ HasRaised(tasks[w], BALANCE)
          /\ NCalls(tasks[w], BALANCE) = 2
    /\ \E w \in DOMAIN tasks :
          /\ tasks[w].pc = "failed"
          /\ HasRaised(tasks[w], SEND)

(***************************************************************************)
(* C11.  A task has logged its two success records, first the one for the  *)
(* explorer of the source chain and then the LAYERZEROSCAN one, both with  *)
(* the hexadecimal form of the hash its submission returned, exactly when  *)
(* its submission has returned; otherwise it has logged no success record. *)
(* No task has logged one record without the other.                        *)
(***************************************************************************)
SuccessRecords(t) == SelectSeq(t.log, LAMBDA r : r.level = "SUCCESS")

SubmissionReturned(t) ==
    \E k \in DOMAIN t.resp : t.resp[k].name = SEND /\ ~t.resp[k].raised

ReturnedHash(t) == RespOf(t, SEND)[1].value[1]

C11_TwoRecordsIffHashReturned ==
    \A w \in DOMAIN tasks :
        LET t == tasks[w]
            recs == SuccessRecords(t)
        IN  /\ Len(recs) \in {0, 2}
            /\ SubmissionReturned(t) <=> Len(recs) = 2
            /\ Len(recs) = 2 =>
                  /\ recs[1].tag = t.kw.from_chain_name
                  /\ recs[1].args = <<t.kw.from_chain_explorer, hex(ReturnedHash(t))>>
                  /\ recs[2].tag = "LAYERZEROSCAN"
                  /\ recs[2].args = <<"layerzeroscan.com", hex(ReturnedHash(t))>>
                  /\ recs[1].address = t.address[1]
                  /\ recs[2].address = t.address[1]
                  /\ t.log[Len(t.log) - 1] = recs[1]
                  /\ t.log[Len(t.log)] = recs[2]
            /\ (HasRaised(t, SEND) \/ HasRaised(t, BALANCE)) => recs = <<>>

\* One task has logged both records with the hash ab, and in the same run
\* a task whose submission raised has logged no success record.
C11_Witness ==
    /\ \E w \in DOMAIN tasks :
          /\ tasks[w].pc = "done"
          /\ Len(SuccessRecords(tasks[w])) = 2
          /\ SuccessRecords(tasks[w])[2].args[2] = <<"a", "b">>
    /\ \E w \in DOMAIN tasks :
          /\ HasRaised(tasks[w], SEND)
          /\ SuccessRecords(tasks[w]) = <<>>

(***************************************************************************)
(* C12.  For a valid mode every completed iteration of the wallet loop has *)
(* appended exactly one coroutine, so that once main awaits the gather     *)
(* there is exactly one task per entry of PRIVATE_KEYS, the k-th for the   *)
(* k-th wallet; all tasks have the same parameters apart from the wallet,  *)
(* and these are of the route the mode names; and the submissions of all   *)
(* tasks together never outnumber the entries of PRIVATE_KEYS.             *)
(***************************************************************************)
RECURSIVE TotalSubmissions(_)
TotalSubmissions(ts) ==
    IF ts = <<>> THEN 0
    ELSE NCalls(ts[1], SEND) + TotalSubmissions(Tail(ts))

RouteOf(kw) == [kw EXCEPT !.wallet = 0]

C12_OneTaskPerWallet ==
    (argv # <<>> /\ argv[1] \in DOMAIN mode_mapping) =>
        /\ Len(tasks) = widx
        /\ mainpc \in {"gather", "finished"} => Len(tasks) = Len(PRIVATE_KEYS)
        /\ \A w \in DOMAIN tasks :
              /\ tasks[w].kw.wallet = PRIVATE_KEYS[w]
              /\ mode_mapping[argv[1]] =
                    tasks[w].kw.from_chain_name \o "-" \o tasks[w].kw.to_chain_name
        /\ \A w, v \in DOMAIN tasks : RouteOf(tasks[w].kw) = RouteOf(tasks[v].kw)
        /\ TotalSubmissions(tasks) <= Len(PRIVATE_KEYS)

\* Two wallets, two tasks, and both have submitted by the time main has finished.
C12_Witness ==
    /\ mainpc = "finished"
    /\ PRIVATE_KEYS = <<1, 2>>
    /\ Len(tasks) = 2
    /\ TotalSubmissions(tasks) = 2

(***************************************************************************)
(* C13.  Under fair scheduling, in a run with a valid mode: if from some   *)
(* point on every task has had its balance question settled (a balance     *)
(* query of its own has returned truthy or raised, or the task has failed  *)
(* before), then eventually every task is finished and the                 *)
(* "*** FINISHED ***" record is logged.                                    *)
(***************************************************************************)
ValidMode == argv # <<>> /\ argv[1] \in DOMAIN mode_mapping

BalanceSettled(t) ==
    \/ TruthyAt(t) # {}
    \/ HasRaised(t, BALANCE)
    \/ t.pc = "failed"

EveryBalanceSettled ==
    mainpc = "gather" => \A w \in DOMAIN tasks : BalanceSettled(tasks[w])

C13_EveryTaskFinishesAndFinishedIsLogged ==
    (ValidMode /\ <>[]EveryBalanceSettled) => <>(AllTerminal /\ FinishedLogged)

\* Main has finished a run in which a task polled twice before its balance was ready.
C13_Witness ==
    /\ mainpc = "finished"
    /\ FinishedLogged
    /\ Len(tasks) >= 2
    /\ \E w \in DOMAIN tasks : tasks[w].pc = "done" /\ BalanceValues(tasks[w]) = <<0, 1>>

(***************************************************************************)
(* C14.  The calls of a task are made in the order amount computation,     *)
(* balance queries, get_token_decimals, submission, and the start delay    *)
(* is drawn after the amounts have arrived.  The delay d is a whole number *)
(* with 1 <= d <= 200 and is slept in full, one unit at a time, before the *)
(* first balance query; every balance query is issued by the step in which *)
(* a sleep of 30 units ends.  Hence the k-th query is issued when the task *)
(* has slept d + 30 * k units since the delay began.                       *)
(***************************************************************************)
CallRank(name) ==
    CASE name = AMOUNT -> 1 [] name = BALANCE -> 2 [] name = DECIMALS -> 3 [] name = SEND -> 4

StepsInOrder(t) ==
    /\ \A j, k \in DOMAIN t.calls :
          j < k => CallRank(t.calls[j].name) <= CallRank(t.calls[k].name)
    /\ NCalls(t, AMOUNT) <= 1
    /\ NCalls(t, DECIMALS) <= 1
    /\ t.start_delay # 0 => t.amounts # None
    /\ t.pc \in {"created", "scheduled", "amount"} => (t.start_delay = 0 /\ t.slept = 0)
    /\ (t.pc \in {"start_delay", "poll_sleep", "balance", "decimals", "submit", "done"}) =>
          /\ t.start_delay \in 1..200
          /\ t.log[1].tag = "START DELAY" /\ t.log[1].args = <<t.start_delay>>

DelaySleptInFull(t) ==
    /\ t.pc = "start_delay" => (NCalls(t, BALANCE) = 0 /\ t.i < t.start_delay)
    /\ NCalls(t, BALANCE) > 0 => t.i = t.start_delay
    /\ NCalls(t, DECIMALS) + NCalls(t, SEND) > 0 => NCalls(t, BALANCE) > 0
    /\ t.slept = t.i + 30 * NCalls(t, BALANCE)

QueryFollowsSleep(t, u) ==
    NCalls(u, BALANCE) # NCalls(t, BALANCE) =>
        /\ NCalls(u, BALANCE) = NCalls(t, BALANCE) + 1
        /\ t.pc = "poll_sleep"
        /\ u.slept = t.slept + 30
        /\ u.slept = u.start_delay + 30 * NCalls(u, BALANCE)

C14_OrderAndTiming ==
    [][\A w \in DOMAIN tasks' :
          /\ StepsInOrder(tasks'[w])
          /\ DelaySleptInFull(tasks'[w])
          /\ w \in DOMAIN tasks => QueryFollowsSleep(tasks[w], tasks'[w])]_vars

\* A task drew the longest delay, 200, and its second query is issued at 260.
C14_Witness ==
    \E w \in DOMAIN tasks :
        /\ tasks[w].start_delay = 200
        /\ tasks[w].pc = "balance"
        /\ NCalls(tasks[w], BALANCE) = 2
        /\ tasks[w].slept = 260

(***************************************************************************)
(* C15.  Every request a task hands to send_token_chain_to_chain is signed *)
(* with the wallet of that task's own entry of PRIVATE_KEYS and names the  *)
(* address derived from that same wallet both as refund_address and as to, *)
(* whatever the other tasks are doing.                                     *)
(***************************************************************************)
OwnRequest(w, req) ==
    /\ req.wallet = PRIVATE_KEYS[w]
    /\ req.transaction_info.refund_address = <<wallet_public_address(PRIVATE_KEYS[w])>>
    /\ req.transaction_info.to = <<wallet_public_address(PRIVATE_KEYS[w])>>

C15_RequestCarriesOwnWallet ==
    \A w \in DOMAIN tasks :
        \A k \in DOMAIN tasks[w].calls :
            tasks[w].calls[k].name = SEND => OwnRequest(w, tasks[w].calls[k].args[1])

\* Two tasks of different wallets have both submitted, each with its own address.
C15_Witness ==
    /\ PRIVATE_KEYS = <<1, 2>>
    /\ \A w \in {1, 2} :
          /\ w \in DOMAIN tasks
          /\ NCalls(tasks[w], SEND) = 1
          /\ tasks[w].calls[Len(tasks[w].calls)].args[1].wallet = w
          /\ tasks[w].calls[Len(tasks[w].calls)].args[1].transaction_info.to = <<<<"address", w>>>>

(***************************************************************************)
(* C16.  A --mode value that is not one of the twelve codes never gets     *)
(* past parse_args: args.mode is never produced, no route is looked up, no *)
(* coroutine is built, no record is logged and no external call is made;   *)
(* the run can only end in the parser's error exit, reported on standard   *)
(* error.                                                                  *)
(***************************************************************************)
C16_InvalidModeRejectedByParser ==
    (argv # <<>> /\ argv[1] \notin DOMAIN mode_mapping) =>
        /\ mainpc \in {"parse_args", "exited"}
        /\ args_mode = None
        /\ mode = None
        /\ widx = 0
        /\ tasks = <<>>
        /\ mainlog = <<>>
        /\ stdout = <<>>
        /\ mainpc = "exited" =>
              (exit_code = <<2>> /\ stderr = <<"argparse: invalid choice">>)

\* The run with --mode xx has exited in the parser although wallets are configured.
C16_Witness ==
    /\ argv = <<"xx">>
    /\ mainpc = "exited"
    /\ Len(PRIVATE_KEYS) >= 1
    /\ tasks = <<>>

(***************************************************************************)
(* C17.  Every source-side parameter of a wallet task (token contract, RPC *)
(* client, router contract, router address, explorer, gas budget) is a     *)
(* handle of the chain named by from_chain_name, and destination_chain_id  *)
(* is the LayerZero id of the chain named by to_chain_name.  It holds for  *)
(* each of the twelve cases of the route table and so for every task of    *)
(* every run.                                                              *)
(***************************************************************************)
SourceSideOf(kw) ==
    <<kw.token_from_chain_contract, kw.from_chain_w3, kw.stargate_from_chain_contract,
      kw.stargate_from_chain_address, kw.from_chain_explorer, kw.gas>>

HandlesOfOneChain(kw) ==
    /\ kw.from_chain_name \in ChainNames
    /\ kw.to_chain_name \in ChainNames
    /\ LET src == Chain(kw.from_chain_name)
           dst == Chain(kw.to_chain_name)
       IN  /\ kw.token_from_chain_contract =
                  (IF kw.token = usdt.name THEN src.usdt_contract ELSE src.usdc_contract)
           /\ kw.from_chain_w3 = src.w3
           /\ kw.stargate_from_chain_contract = src.stargate_contract
           /\ kw.stargate_from_chain_address = src.stargate_address
           /\ kw.from_chain_explorer = src.explorer
           /\ kw.gas = src.gas
           /\ kw.destination_chain_id = dst.layer_zero_chain_id
    /\ \A k \in 1..Len(SourceSideOf(kw)) : SourceSideOf(kw)[k][1] = kw.from_chain_name

EveryCaseOfOneChain ==
    \A c \in DOMAIN mode_mapping :
        /\ Len(MatchMode(mode_mapping[c], 1)) = 1
        /\ HandlesOfOneChain(MatchMode(mode_mapping[c], 1)[1])

C17_SourceHandlesBelongToSourceChain ==
    /\ EveryCaseOfOneChain
    /\ \A w \in DOMAIN tasks : HandlesOfOneChain(tasks[w].kw)

\* A fantom-avalanche task exists; its explorer and RPC client are fantom's
\* and its destination id is avalanche's.
C17_Witness ==
    /\ argv = <<"fa">>
    /\ Len(tasks) = 1
    /\ tasks[1].kw.from_chain_explorer = fantom.explorer
    /\ tasks[1].kw.from_chain_w3 = fantom.w3
    /\ tasks[1].kw.destination_chain_id = avalanche.layer_zero_chain_id
    /\ tasks[1].pc = "done"

(***************************************************************************)
(* C18.  The amounts are computed by the one call of                       *)
(* get_correct_amount_and_min_amount, which is the task's first external   *)
(* call: it returns before any sleep of the start delay and before any     *)
(* balance query.  The submitted request carries exactly the pair that     *)
(* call returned, whatever balances were observed, and once a balance      *)
(* query has returned a non-zero value and the decimals lookup has         *)
(* returned, the submission has been made, also when that balance is       *)
(* smaller than amount_in.                                                 *)
(***************************************************************************)
ComputedAmounts(t) == RespOf(t, AMOUNT)[1].value[1]

SendRequests(t) == SelectSeq(t.calls, LAMBDA c : c.name = SEND)

AmountsComputedFirst(t) ==
    /\ NCalls(t, AMOUNT) <= 1
    /\ t.calls # <<>> => t.calls[1].name = AMOUNT
    /\ Len(RespOf(t, AMOUNT)) <= 1
    /\ RespOf(t, AMOUNT) = <<>> =>
          (t.slept = 0 /\ NCalls(t, BALANCE) = 0 /\ NCalls(t, SEND) = 0 /\ t.log = <<>>)
    /\ t.resp # <<>> => t.resp[1].name = AMOUNT

RequestCarriesComputedAmounts(t) ==
    \A k \in DOMAIN SendRequests(t) :
        LET req == SendRequests(t)[k].args[1]
        IN  /\ ~RespOf(t, AMOUNT)[1].raised
            /\ req.transaction_info.amount_in = ComputedAmounts(t)[1]
            /\ req.transaction_info.amount_out_min = ComputedAmounts(t)[2]
            /\ req.amount_to_swap = ComputedAmounts(t)[1]

SubmittedWhateverTheBalance(t) ==
    (TruthyAt(t) # {} /\ RespOf(t, DECIMALS) # <<>> /\ ~HasRaised(t, DECIMALS))
        => NCalls(t, SEND) = 1

C18_AmountsFixedAtTaskStart ==
    \A w \in DOMAIN tasks :
        /\ AmountsComputedFirst(tasks[w])
        /\ RequestCarriesComputedAmounts(tasks[w])
        /\ SubmittedWhateverTheBalance(tasks[w])

\* A request for amount_in 5 has been submitted and has returned although
\* the only non-zero balance observed, 3, is smaller than amount_in.
C18_Witness ==
    /\ Len(tasks) = 1
    /\ tasks[1].pc = "done"
    /\ BalanceValues(tasks[1]) = <<0, 3>>
    /\ SendRequests(tasks[1])[1].args[1].transaction_info.amount_in = 5
    /\ SendRequests(tasks[1])[1].args[1].transaction_info.amount_out_min = 4

(***************************************************************************)
(* C19.  In the balance-wait loop the "Checking ... balance" record is     *)
(* written on the poll attempts numbered 0, 3, 6, ... and on no other: the *)
(* step that issues the query of attempt k writes the record exactly when  *)
(* k is a multiple of 3, and no other step writes one (none when the       *)
(* answer arrives).  So a task has written ceil(n/3) records after n       *)
(* completed polls, and a task that is still waiting after a multiple of 3 *)
(* polls writes one more record at its next attempt.                       *)
(***************************************************************************)
BalanceRecords(t) == Cardinality({k \in DOMAIN t.log : t.log[k].tag = "BALANCE"})

CompletedPolls(t) == Len(RespOf(t, BALANCE))

CeilThird(n) == (n + 2) \div 3

RecordsMatchPolls(t) ==
    /\ BalanceRecords(t) = CeilThird(NCalls(t, BALANCE))
    /\ t.pc = "poll_sleep" =>
          /\ CompletedPolls(t) = NCalls(t, BALANCE)
          /\ CompletedPolls(t) = t.logger_cntr
          /\ BalanceRecords(t) = CeilThird(CompletedPolls(t))
    /\ t.pc = "balance" =>
          /\ CompletedPolls(t) = NCalls(t, BALANCE) - 1
          /\ BalanceRecords(t) = CeilThird(CompletedPolls(t) + 1)

RecordOnlyWithEveryThirdQuery(t, u) ==
    LET k == NCalls(t, BALANCE)
    IN  IF NCalls(u, BALANCE) = k + 1
        THEN /\ t.pc = "poll_sleep"
             /\ CompletedPolls(t) = k
             /\ CompletedPolls(u) = k
             /\ BalanceRecords(u) = BalanceRecords(t) + (IF k % 3 = 0 THEN 1 ELSE 0)
             /\ k % 3 = 0 => u.log[Len(u.log)].tag = "BALANCE"
        ELSE /\ NCalls(u, BALANCE) = k
             /\ BalanceRecords(u) = BalanceRecords(t)

C19_RecordOnEveryThirdPoll ==
    [][\A w \in DOMAIN tasks' :
          /\ RecordsMatchPolls(tasks'[w])
          /\ w \in DOMAIN tasks => RecordOnlyWithEveryThirdQuery(tasks[w], tasks'[w])]_vars

\* The query of attempt 6 is in flight: six polls were answered with a falsy
\* balance and the third record has been written.
C19_Witness ==
    \E w \in DOMAIN tasks :
        /\ tasks[w].pc = "balance"
        /\ NCalls(tasks[w], BALANCE) = 7
        /\ BalanceValues(tasks[w]) = <<0, 0, 0, 0, 0, 0>>
        /\ BalanceRecords(tasks[w]) = 3

====
